---------------------------- MODULE Spec2Model ----------------------------
(***************************************************************************)
(* Model of timesheet_app/excel_manager.py: the three operations over one  *)
(* workbook file (load_reference_data, append_time_entry, create_template).*)
(* The file at the path is the only shared state; every caller holds its   *)
(* own in-memory workbook between load_workbook and workbook.save.         *)
(***************************************************************************)
EXTENDS Integers, Sequences, FiniteSets, TLC

VARIABLES
    disk,      \* the file at the path: [exists, sheets]
    pc,        \* per caller: "idle" or "append_save" (between load and save)
    wb,        \* per caller: the in-memory workbook of a running append
    call,      \* per caller: the call being executed / last executed
    result,    \* per caller: what the last finished call returned or raised
    nops,      \* number of calls started so far
    ver,       \* number of successful saves so far
    tlog       \* entries appended since the last create_template

vars == <<disk, pc, wb, call, result, nops, ver, tlog>>

-----------------------------------------------------------------------------
(* Bounds of the model *)

MaxOps == 3
MaxRows == 3
MaxRefRows == 4

Procs == {"a", "b"}

-----------------------------------------------------------------------------
(* Python values held by cells and arguments *)

None == [t |-> "None"]
Str(cs) == [t |-> "str", chars |-> cs]
Num(n) == [t |-> "int", n |-> n]
Date(d) == [t |-> "date", day |-> d]
Datetime(d, tm) == [t |-> "datetime", day |-> d, time |-> tm]

REFERENCE_SHEET == "Spravochnik"
TIMESHEET_SHEET == "Uchet vremeni"

\* str.strip() removes these from both ends
Whitespace == {" ", "\t"}

DigitChar(d) == <<"0", "1", "2", "3", "4", "5", "6", "7", "8", "9">>[d + 1]

RECURSIVE NatToChars(_)
NatToChars(n) ==
    IF n < 10 THEN <<DigitChar(n)>>
    ELSE NatToChars(n \div 10) \o <<DigitChar(n % 10)>>

\* str(value) for the kinds of value a cell holds
PyStr(v) ==
    CASE v.t = "str" -> v.chars
      [] v.t = "int" -> NatToChars(v.n)
      [] v.t = "date" -> <<v.day>>
      [] OTHER -> <<v.t>>

RECURSIVE LStrip(_)
LStrip(cs) ==
    IF cs # <<>> /\ Head(cs) \in Whitespace THEN LStrip(Tail(cs)) ELSE cs

RECURSIVE RStrip(_)
RStrip(cs) ==
    IF cs # <<>> /\ cs[Len(cs)] \in Whitespace
    THEN RStrip(SubSeq(cs, 1, Len(cs) - 1))
    ELSE cs

Strip(cs) == RStrip(LStrip(cs))

Range(s) == {s[i] : i \in 1..Len(s)}

SetMax(S) == CHOOSE m \in S : \A k \in S : k <= m

-----------------------------------------------------------------------------
(* openpyxl workbook, worksheet and cell, as far as the module uses them *)

EmptyCell == [value |-> None, number_format |-> "General", bold |-> FALSE]

ValueCell(v) == [EmptyCell EXCEPT !.value = v]

has_style(cell) == cell.bold \/ cell.number_format # "General"

NoCells == [rc \in {} |-> EmptyCell]

\* Worksheet.max_row / max_column: 1 for a sheet without cells
max_row(ws) ==
    IF DOMAIN ws.cells = {} THEN 1 ELSE SetMax({rc[1] : rc \in DOMAIN ws.cells})

max_column(ws) ==
    IF DOMAIN ws.cells = {} THEN 1 ELSE SetMax({rc[2] : rc \in DOMAIN ws.cells})

\* the cell object sheet.cell(row=r, column=c) returns
CellAt(ws, r, c) ==
    IF <<r, c>> \in DOMAIN ws.cells THEN ws.cells[<<r, c>>] ELSE EmptyCell

\* sheet.cell(row=r, column=c) creates the cell when the sheet has none there
Touch(ws, r, c) ==
    IF <<r, c>> \in DOMAIN ws.cells THEN ws
    ELSE [ws EXCEPT !.cells = [rc \in DOMAIN ws.cells \cup {<<r, c>>} |->
                                  IF rc = <<r, c>> THEN EmptyCell ELSE ws.cells[rc]]]

PutCell(ws, r, c, cell) ==
    [ws EXCEPT !.cells = [rc \in DOMAIN ws.cells \cup {<<r, c>>} |->
                             IF rc = <<r, c>> THEN cell ELSE ws.cells[rc]]]

SetValue(ws, r, c, v) == PutCell(ws, r, c, [CellAt(ws, r, c) EXCEPT !.value = v])

SetNumberFormat(ws, r, c, f) ==
    PutCell(ws, r, c, [CellAt(ws, r, c) EXCEPT !.number_format = f])

sheetnames(book) == [i \in 1..Len(book.sheets) |-> book.sheets[i].title]

\* `name in workbook`
Contains(book, name) == name \in Range(sheetnames(book))

SheetIndex(book, name) ==
    CHOOSE i \in 1..Len(book.sheets) : book.sheets[i].title = name

\* workbook[name]
SheetOf(book, name) == book.sheets[SheetIndex(book, name)]

\* Worksheet.iter_rows(values_only=True): nothing for a sheet without cells,
\* else every row 1..max_row as a tuple of max_column values
iter_rows(ws) ==
    IF DOMAIN ws.cells = {} THEN <<>>
    ELSE [r \in 1..max_row(ws) |->
             [c \in 1..max_column(ws) |-> CellAt(ws, r, c).value]]

\* the writer leaves out a cell that has neither a value nor a style
Persisted(ws) ==
    [ws EXCEPT !.cells =
        [rc \in {q \in DOMAIN ws.cells :
                    ws.cells[q].value # None \/ has_style(ws.cells[q])} |->
            ws.cells[rc]]]

\* workbook.save(path): the whole file is replaced by the workbook
SavedFile(book) ==
    [exists |-> TRUE,
     sheets |-> [i \in 1..Len(book.sheets) |-> Persisted(book.sheets[i])]]

\* load_workbook(path)
load_workbook(file) == [sheets |-> file.sheets]

NoFile == [exists |-> FALSE, sheets |-> <<>>]
NoWorkbook == [sheets |-> <<>>]

-----------------------------------------------------------------------------
(* What a finished call hands back: a value, or the exception raised.      *)
(* `opened` tells whether load_workbook had been called by then.           *)

NoResult == [kind |-> "none", msg |-> <<>>, value |-> <<>>, opened |-> FALSE]

Returned(v, op) == [kind |-> "ok", msg |-> <<>>, value |-> v, opened |-> op]

Raised(k, m, op) == [kind |-> k, msg |-> m, value |-> <<>>, opened |-> op]

\* ', '.join(names)
RECURSIVE Join(_, _)
Join(names, sep) ==
    IF names = <<>> THEN <<>>
    ELSE IF Len(names) = 1 THEN names
    ELSE <<Head(names), sep>> \o Join(Tail(names), sep)

NotFoundMessage == <<"Excel file not found: ", "path">>

\* faulty variant: the sheets found are not listed
StructureMessage_nolist(name, book) ==
    <<"Workbook must contain sheet '", name, "'.">>

\* f"Workbook must contain sheet '{name}'. Found: {', '.join(workbook.sheetnames)}"
StructureMessage(name, book) ==
    <<"Workbook must contain sheet '", name, "'. Found: ">>
        \o Join(sheetnames(book), ", ")

-----------------------------------------------------------------------------
(* load_reference_data *)

\* faulty variant: the duplicate test is made on the text before it is stripped
RECURSIVE NormaliseFrom_raw(_, _)
NormaliseFrom_raw(values, items) ==
    IF values = <<>> THEN items
    ELSE LET value == Head(values)
             text == Strip(PyStr(value))
         IN  IF value = None THEN NormaliseFrom_raw(Tail(values), items)
             ELSE IF text # <<>> /\ PyStr(value) \notin Range(items)
                  THEN NormaliseFrom_raw(Tail(values), Append(items, text))
                  ELSE NormaliseFrom_raw(Tail(values), items)

RECURSIVE NormaliseFrom(_, _)
NormaliseFrom(values, items) ==
    IF values = <<>> THEN items
    ELSE LET value == Head(values)
             text == Strip(PyStr(value))
         IN  IF value = None THEN NormaliseFrom(Tail(values), items)
             ELSE IF text # <<>> /\ text \notin Range(items)
                  THEN NormaliseFrom(Tail(values), Append(items, text))
                  ELSE NormaliseFrom(Tail(values), items)

_normalise(values) == NormaliseFrom(values, <<>>)

\* project, work_type, *_ = row + (None, None)
Padded(row) == row \o <<None, None>>

\* the loop over iter_rows(values_only=True) with idx starting at 1:
\* idx == 1 is skipped, every other row gives one project and one work type
ReferenceColumn(rows, k) ==
    [j \in 1..(IF Len(rows) = 0 THEN 0 ELSE Len(rows) - 1) |-> Padded(rows[j + 1])[k]]

load_reference_data(file) ==
    IF ~file.exists
    THEN Raised("FileNotFoundError", NotFoundMessage, FALSE)
    ELSE LET workbook == load_workbook(file) IN
         IF ~Contains(workbook, REFERENCE_SHEET)
         THEN Raised("ExcelStructureError",
                     StructureMessage(REFERENCE_SHEET, workbook), TRUE)
         ELSE LET rows == iter_rows(SheetOf(workbook, REFERENCE_SHEET))
                  projects == ReferenceColumn(rows, 1)
                  work_types == ReferenceColumn(rows, 2)
              IN  Returned(<<_normalise(projects), _normalise(work_types)>>, TRUE)

-----------------------------------------------------------------------------
(* append_time_entry *)

\* faulty variant: a time of day instead of a duration, which wraps at 24 hours
timedelta_wrapped(elapsed_seconds) ==
    [t |-> "timedelta", days |-> 0, seconds |-> elapsed_seconds % 86400]

\* timedelta(seconds=elapsed_seconds), normalised to days and seconds < 86400
timedelta(elapsed_seconds) ==
    [t |-> "timedelta",
     days |-> elapsed_seconds \div 86400,
     seconds |-> elapsed_seconds % 86400]

\* what the number format [h]:mm:ss shows for a duration
Shown(td) ==
    LET total == td.days * 86400 + td.seconds
    IN  <<total \div 3600, (total % 3600) \div 60, total % 60>>

\* finished_at or datetime.now()
Timestamp(finished_at, now) == IF finished_at # None THEN finished_at ELSE now

\* timestamp.date()
DateOf(ts) == Date(ts.day)

\* faulty variant: the duration column is not looked at
is_empty_row_first3(sheet, r) ==
    /\ CellAt(sheet, r, 1).value = None
    /\ CellAt(sheet, r, 2).value = None
    /\ CellAt(sheet, r, 3).value = None

is_empty_row(sheet, r) ==
    /\ CellAt(sheet, r, 1).value = None
    /\ CellAt(sheet, r, 2).value = None
    /\ CellAt(sheet, r, 3).value = None
    /\ CellAt(sheet, r, 4).value = None

\* is_empty_row asks sheet.cell for columns 1, 2, ... until one holds a value
RECURSIVE TouchRow(_, _, _)
TouchRow(sheet, r, c) ==
    IF c > 4 THEN sheet
    ELSE IF CellAt(sheet, r, c).value # None THEN Touch(sheet, r, c)
    ELSE TouchRow(Touch(sheet, r, c), r, c + 1)

\* for r in range(first, last + 1): ... break; target_row None is 0 here
RECURSIVE ScanRows(_, _, _)
ScanRows(sheet, r, last) ==
    IF r > last THEN [sheet |-> sheet, target_row |-> 0]
    ELSE IF is_empty_row(sheet, r)
         THEN [sheet |-> TouchRow(sheet, r, 1), target_row |-> r]
         ELSE ScanRows(TouchRow(sheet, r, 1), r + 1, last)

first == 2

\* faulty variant: with no free row the last row is taken, not the one after it
FindTarget_overwrite(sheet) ==
    LET last == max_row(sheet)
        scan == ScanRows(sheet, first, last)
    IN  [sheet |-> scan.sheet,
         target_row |-> IF scan.target_row = 0 THEN last ELSE scan.target_row]

\* faulty variant: with no free row one row is skipped after the last row
FindTarget_gap(sheet) ==
    LET last == max_row(sheet)
        scan == ScanRows(sheet, first, last)
    IN  [sheet |-> scan.sheet,
         target_row |-> IF scan.target_row = 0 THEN last + 2 ELSE scan.target_row]

FindTarget(sheet) ==
    LET last == max_row(sheet)
        scan == ScanRows(sheet, first, last)
    IN  [sheet |-> scan.sheet,
         target_row |-> IF scan.target_row = 0 THEN last + 1 ELSE scan.target_row]

\* faulty variant: the duration goes one column too far to the right
WriteEntry_shifted(sheet, target_row, timestamp, project, work_type, duration, fmt_ok) ==
    LET s1 == SetValue(sheet, target_row, 1, DateOf(timestamp))
        s2 == SetValue(s1, target_row, 2, project)
        s3 == SetValue(s2, target_row, 3, work_type)
        s4 == SetValue(s3, target_row, 5, duration)
    IN  IF fmt_ok THEN SetNumberFormat(s4, target_row, 5, "[h]:mm:ss") ELSE s4

\* faulty variant: the duration value is not written, only its format
WriteEntry_noduration(sheet, target_row, timestamp, project, work_type, duration, fmt_ok) ==
    LET s1 == SetValue(sheet, target_row, 1, DateOf(timestamp))
        s2 == SetValue(s1, target_row, 2, project)
        s3 == SetValue(s2, target_row, 3, work_type)
    IN  IF fmt_ok THEN SetNumberFormat(s3, target_row, 4, "[h]:mm:ss") ELSE s3

\* the four cell writes and the best-effort number format (fmt_ok: the
\* assignment of number_format did not raise)
WriteEntry(sheet, target_row, timestamp, project, work_type, duration, fmt_ok) ==
    LET s1 == SetValue(sheet, target_row, 1, DateOf(timestamp))
        s2 == SetValue(s1, target_row, 2, project)
        s3 == SetValue(s2, target_row, 3, work_type)
        s4 == SetValue(s3, target_row, 4, duration)
    IN  IF fmt_ok THEN SetNumberFormat(s4, target_row, 4, "[h]:mm:ss") ELSE s4

ReplaceSheet(book, name, sheet) ==
    [book EXCEPT !.sheets[SheetIndex(book, name)] = sheet]

\* append_time_entry from load_workbook up to, not including, workbook.save
AppendOpened(file, project, work_type, elapsed_seconds, finished_at, now, fmt_ok) ==
    LET workbook == load_workbook(file) IN
    IF ~Contains(workbook, TIMESHEET_SHEET)
    THEN [res |-> Raised("ExcelStructureError",
                         StructureMessage(TIMESHEET_SHEET, workbook), TRUE),
          workbook |-> NoWorkbook, target_row |-> 0]
    ELSE LET sheet == SheetOf(workbook, TIMESHEET_SHEET)
             timestamp == Timestamp(finished_at, now)
             duration == timedelta(elapsed_seconds)
             found == FindTarget(sheet)
             written == WriteEntry(found.sheet, found.target_row, timestamp,
                                   project, work_type, duration, fmt_ok)
         IN  [res |-> Returned(<<>>, TRUE),
              workbook |-> ReplaceSheet(workbook, TIMESHEET_SHEET, written),
              target_row |-> found.target_row]

\* faulty variant: no test that the path exists; load_workbook is what fails
AppendPrepare_nocheck(file, project, work_type, elapsed_seconds, finished_at, now, fmt_ok) ==
    IF ~file.exists
    THEN [res |-> Raised("FileNotFoundError", NotFoundMessage, TRUE),
          workbook |-> NoWorkbook, target_row |-> 0]
    ELSE AppendOpened(file, project, work_type, elapsed_seconds, finished_at, now, fmt_ok)

\* append_time_entry up to, not including, workbook.save: the exception
\* raised, or the workbook that is about to be saved
AppendPrepare(file, project, work_type, elapsed_seconds, finished_at, now, fmt_ok) ==
    IF ~file.exists
    THEN [res |-> Raised("FileNotFoundError", NotFoundMessage, FALSE),
          workbook |-> NoWorkbook, target_row |-> 0]
    ELSE AppendOpened(file, project, work_type, elapsed_seconds, finished_at, now, fmt_ok)

-----------------------------------------------------------------------------
(* create_template *)

\* Workbook(): one default sheet, which is the active one
Workbook == [sheets |-> <<[title |-> "Sheet", cells |-> NoCells]>>]

active(book) == 1

\* wb.remove(sheet)
remove(book, i) ==
    [sheets |-> SubSeq(book.sheets, 1, i - 1)
                    \o SubSeq(book.sheets, i + 1, Len(book.sheets))]

\* wb.create_sheet(title): a new empty sheet after the others
create_sheet(book, title) ==
    [sheets |-> Append(book.sheets, [title |-> title, cells |-> NoCells])]

\* ws.append(values) on the last sheet: the row after the last one written
RECURSIVE PutRow(_, _, _, _)
PutRow(sheet, r, values, c) ==
    IF c > Len(values) THEN sheet
    ELSE PutRow(SetValue(sheet, r, c, values[c]), r, values, c + 1)

append_row(book, values) ==
    LET n == Len(book.sheets)
        sheet == book.sheets[n]
        r == IF DOMAIN sheet.cells = {} THEN 1 ELSE max_row(sheet) + 1
    IN  [book EXCEPT !.sheets[n] = PutRow(sheet, r, values, 1)]

ReferenceHeader == <<Str(<<"Proekt">>), Str(<<"Vid rabot">>)>>

TimesheetHeader ==
    <<Str(<<"Data">>), Str(<<"Proekt">>), Str(<<"Vid rabot">>), Str(<<"Dlitelnost">>)>>

\* faulty variant: the default sheet is left in the workbook
TemplateWorkbook_keepdefault ==
    LET wb0 == Workbook
        wb2 == append_row(create_sheet(wb0, REFERENCE_SHEET), ReferenceHeader)
        wb3 == append_row(create_sheet(wb2, TIMESHEET_SHEET), TimesheetHeader)
    IN  wb3

\* create_template up to workbook.save
TemplateWorkbook ==
    LET wb0 == Workbook
        wb1 == remove(wb0, active(wb0))
        wb2 == append_row(create_sheet(wb1, REFERENCE_SHEET), ReferenceHeader)
        wb3 == append_row(create_sheet(wb2, TIMESHEET_SHEET), TimesheetHeader)
    IN  wb3

-----------------------------------------------------------------------------
(* Documents the path may hold before the first call *)

EntryRow(day, project, work_type, seconds) ==
    [c \in 1..4 |->
        CASE c = 1 -> ValueCell(Date(day))
          [] c = 2 -> ValueCell(Str(<<project>>))
          [] c = 3 -> ValueCell(Str(<<work_type>>))
          [] c = 4 -> [ValueCell(timedelta(seconds)) EXCEPT !.number_format = "[h]:mm:ss"]]

\* the cells of one data row of the log, by column
TsRowKinds == {"absent", "entry", "only1", "only2", "only3", "only4", "styled", "note5"}

TsRow(kind) ==
    CASE kind = "absent" -> [c \in {} |-> EmptyCell]
      [] kind = "entry"  -> EntryRow("2023-12-31", "P0", "W0", 60)
      [] kind = "only1"  -> [c \in {1} |-> ValueCell(Date("2023-12-30"))]
      [] kind = "only2"  -> [c \in {2} |-> ValueCell(Str(<<"P0">>))]
      [] kind = "only3"  -> [c \in {3} |-> ValueCell(Str(<<"W0">>))]
      [] kind = "only4"  -> [c \in {4} |-> ValueCell(timedelta(5))]
      [] kind = "styled" -> [c \in 1..4 |-> [EmptyCell EXCEPT !.bold = TRUE]]
      [] kind = "note5"  -> [c \in {5} |-> ValueCell(Str(<<"note">>))]

\* a sheet from its rows, each row a function from some columns to cells
SheetOfRows(title, rows) ==
    [title |-> title,
     cells |-> [rc \in {q \in (1..Len(rows)) \X (1..5) : q[2] \in DOMAIN rows[q[1]]} |->
                   rows[rc[1]][rc[2]]]]

HeaderRow(values) == [c \in 1..Len(values) |-> ValueCell(values[c])]

TimesheetOf(kinds) ==
    SheetOfRows(TIMESHEET_SHEET,
                <<HeaderRow(TimesheetHeader)>> \o [i \in 1..Len(kinds) |-> TsRow(kinds[i])])

TsKindSeqs == UNION {[1..n -> TsRowKinds] : n \in 0..MaxRows}

\* the rows a reference sheet may hold
RefRows ==
    {<<Str(<<"A">>), Str(<<"X">>)>>,
     <<Str(<<" ", "A", "\t">>), None>>,
     <<Str(<<"B">>), Str(<<"X", " ">>)>>,
     <<Num(7), Str(<<"Y">>)>>,
     <<Str(<<"7">>), Str(<<>>)>>,
     <<None, Str(<<"X">>)>>,
     <<Str(<<" ">>), Str(<<"\t", "Y">>)>>,
     <<Str(<<"B">>)>>,
     <<None, Str(<<"Y">>), Str(<<"Z">>)>>}

RefRowCells(row) ==
    [c \in {k \in 1..Len(row) : row[k] # None} |-> ValueCell(row[c])]

ReferenceOf(rows) ==
    SheetOfRows(REFERENCE_SHEET, [i \in 1..Len(rows) |-> RefRowCells(rows[i])])

RefRowSeqs == UNION {[1..n -> RefRows] : n \in 0..MaxRefRows}

File(sheets) == [exists |-> TRUE, sheets |-> sheets]

PlainReference == ReferenceOf(<<ReferenceHeader, <<Str(<<"A">>), Str(<<"X">>)>>>>)

OtherSheet == SheetOfRows("Sheet1", <<HeaderRow(<<Str(<<"x">>)>>)>>)

EmptyTimesheet == [title |-> TIMESHEET_SHEET, cells |-> NoCells]

\* documents with every shape of log sheet
TimesheetFiles ==
    {File(<<PlainReference, TimesheetOf(ks)>>) : ks \in TsKindSeqs}
        \cup {File(<<PlainReference, EmptyTimesheet>>)}

\* documents with every shape of reference sheet
ReferenceFiles ==
    {File(<<ReferenceOf(rows), TimesheetOf(<<>>)>>) : rows \in RefRowSeqs}

\* documents with and without the required sheets, and no document
StructureFiles ==
    {NoFile,
     File(<<OtherSheet, SheetOfRows("Sheet2", <<>>)>>),
     File(<<PlainReference>>),
     File(<<TimesheetOf(<<"entry">>), OtherSheet>>),
     File(<<TimesheetOf(<<"entry", "styled">>), PlainReference>>),
     File(<<PlainReference, OtherSheet, TimesheetOf(<<"entry", "absent", "entry">>)>>),
     File(<<PlainReference, TimesheetOf(<<"note5", "only3", "styled">>)>>)}

-----------------------------------------------------------------------------
(* Arguments of the calls *)

Projects == {Str(<<"P1">>), Str(<<"P2">>)}
WorkTypes == {Str(<<"W1">>)}
ElapsedValues == {0, 3725, 90061}
FinishedAtValues == {None, Datetime("2024-01-05", "18:30")}
Clock == {Datetime("2024-02-01", "09:00")}

\* project and finished_at of the calls made where several calls follow
\* one another
EntryArgs ==
    {<<Str(<<"P1">>), None>>, <<Str(<<"P2">>), Datetime("2024-01-05", "18:30")>>}

NoCall ==
    [op |-> "none", id |-> 0, project |-> None, work_type |-> None,
     elapsed_seconds |-> 0, finished_at |-> None, now |-> None,
     target_row |-> 0, before |-> NoFile, loaded_ver |-> 0, saved_ver |-> 0]

NoLog == [valid |-> FALSE, entries |-> <<>>]

-----------------------------------------------------------------------------
(* The state machine *)

TypeOK ==
    /\ disk.exists \in BOOLEAN
    /\ pc \in [Procs -> {"idle", "append_save"}]
    /\ nops \in 0..MaxOps
    /\ ver \in 0..MaxOps

InitWith(files) ==
    /\ disk \in files
    /\ pc = [p \in Procs |-> "idle"]
    /\ wb = [p \in Procs |-> NoWorkbook]
    /\ call = [p \in Procs |-> NoCall]
    /\ result = [p \in Procs |-> NoResult]
    /\ nops = 0
    /\ ver = 0
    /\ tlog = NoLog

Init == InitWith(StructureFiles)

CanStart(p) == pc[p] = "idle" /\ nops < MaxOps

\* load_reference_data(path): reads the file once, writes nothing
LoadReferenceData(p) ==
    /\ CanStart(p)
    /\ nops' = nops + 1
    /\ call' = [call EXCEPT ![p] = [NoCall EXCEPT !.op = "load", !.id = nops + 1,
                                                  !.before = disk, !.loaded_ver = ver]]
    /\ result' = [result EXCEPT ![p] = load_reference_data(disk)]
    /\ UNCHANGED <<disk, pc, wb, ver, tlog>>

AppendCall(id, project, work_type, elapsed_seconds, finished_at, now, target_row) ==
    [op |-> "append", id |-> id, project |-> project, work_type |-> work_type,
     elapsed_seconds |-> elapsed_seconds, finished_at |-> finished_at, now |-> now,
     target_row |-> target_row, before |-> disk, loaded_ver |-> ver, saved_ver |-> 0]

\* append_time_entry(path, ...) from its start to just before workbook.save:
\* it raises, or holds the changed workbook in memory
AppendLoad(p, project, work_type, elapsed_seconds, finished_at, now, fmt_ok) ==
    LET out == AppendPrepare(disk, project, work_type, elapsed_seconds,
                             finished_at, now, fmt_ok)
    IN  /\ CanStart(p)
        /\ nops' = nops + 1
        /\ call' = [call EXCEPT ![p] =
                       AppendCall(nops + 1, project, work_type, elapsed_seconds,
                                  finished_at, now, out.target_row)]
        /\ IF out.res.kind = "ok"
           THEN /\ pc' = [pc EXCEPT ![p] = "append_save"]
                /\ wb' = [wb EXCEPT ![p] = out.workbook]
                /\ result' = [result EXCEPT ![p] = NoResult]
           ELSE /\ result' = [result EXCEPT ![p] = out.res]
                /\ UNCHANGED <<pc, wb>>
        /\ UNCHANGED <<disk, ver, tlog>>

LogEntry(c) ==
    [finished_at |-> c.finished_at, now |-> c.now, project |-> c.project,
     work_type |-> c.work_type, elapsed_seconds |-> c.elapsed_seconds]

Logged(log, c) == [log EXCEPT !.entries = Append(@, LogEntry(c))]

StorageError == Raised("OSError", <<"save failed">>, TRUE)

\* workbook.save(workbook_path) of append_time_entry: the file is replaced by
\* the workbook in memory, or the save raises and the file stays as it is
AppendSave(p, save_ok) ==
    /\ pc[p] = "append_save"
    /\ pc' = [pc EXCEPT ![p] = "idle"]
    /\ wb' = [wb EXCEPT ![p] = NoWorkbook]
    /\ IF save_ok
       THEN /\ disk' = SavedFile(wb[p])
            /\ ver' = ver + 1
            /\ call' = [call EXCEPT ![p].saved_ver = ver + 1]
            /\ result' = [result EXCEPT ![p] = Returned(<<>>, TRUE)]
            /\ tlog' = Logged(tlog, call[p])
       ELSE /\ result' = [result EXCEPT ![p] = StorageError]
            /\ UNCHANGED <<disk, ver, call, tlog>>
    /\ UNCHANGED nops

\* append_time_entry(path, ...) run from start to end with no other call in between
AppendTimeEntry(p, project, work_type, elapsed_seconds, finished_at, now, fmt_ok, save_ok) ==
    LET out == AppendPrepare(disk, project, work_type, elapsed_seconds,
                             finished_at, now, fmt_ok)
        c == AppendCall(nops + 1, project, work_type, elapsed_seconds,
                        finished_at, now, out.target_row)
    IN  /\ CanStart(p)
        /\ nops' = nops + 1
        /\ IF out.res.kind = "ok" /\ save_ok
           THEN /\ disk' = SavedFile(out.workbook)
                /\ ver' = ver + 1
                /\ call' = [call EXCEPT ![p] = [c EXCEPT !.saved_ver = ver + 1]]
                /\ result' = [result EXCEPT ![p] = out.res]
                /\ tlog' = Logged(tlog, c)
           ELSE /\ call' = [call EXCEPT ![p] = c]
                /\ result' = [result EXCEPT ![p] =
                                 IF out.res.kind = "ok" THEN StorageError ELSE out.res]
                /\ UNCHANGED <<disk, ver, tlog>>
        /\ UNCHANGED <<pc, wb>>

\* create_template(path): builds the workbook in memory and saves it over
\* whatever the path holds
CreateTemplate(p, save_ok) ==
    /\ CanStart(p)
    /\ nops' = nops + 1
    /\ IF save_ok
       THEN /\ disk' = SavedFile(TemplateWorkbook)
            /\ ver' = ver + 1
            /\ call' = [call EXCEPT ![p] = [NoCall EXCEPT !.op = "create", !.id = nops + 1,
                                                         !.before = disk, !.loaded_ver = ver,
                                                         !.saved_ver = ver + 1]]
            /\ result' = [result EXCEPT ![p] = Returned(<<>>, FALSE)]
            /\ tlog' = [valid |-> TRUE, entries |-> <<>>]
       ELSE /\ call' = [call EXCEPT ![p] = [NoCall EXCEPT !.op = "create", !.id = nops + 1,
                                                         !.before = disk, !.loaded_ver = ver]]
            /\ result' = [result EXCEPT ![p] = [StorageError EXCEPT !.opened = FALSE]]
            /\ UNCHANGED <<disk, ver, tlog>>
    /\ UNCHANGED <<pc, wb>>

\* callers that do not coordinate: any call may run between another call's
\* load and save
Next ==
    \/ \E p \in Procs : LoadReferenceData(p)
    \/ \E p \in Procs, args \in EntryArgs, now \in Clock :
            AppendLoad(p, args[1], Str(<<"W1">>), 3725, args[2], now, TRUE)
    \/ \E p \in Procs, save_ok \in BOOLEAN : AppendSave(p, save_ok)
    \/ \E p \in Procs, save_ok \in BOOLEAN : CreateTemplate(p, save_ok)

Spec == Init /\ [][Next]_vars

\* one caller making its calls one after the other
InitSerial == InitWith(StructureFiles)

NextSerial ==
    \/ LoadReferenceData("a")
    \/ \E args \in EntryArgs, work_type \in WorkTypes,
          elapsed_seconds \in ElapsedValues, now \in Clock, save_ok \in BOOLEAN :
            AppendTimeEntry("a", args[1], work_type, elapsed_seconds, args[2],
                            now, TRUE, save_ok)
    \/ \E save_ok \in BOOLEAN : CreateTemplate("a", save_ok)

SpecSerial == InitSerial /\ [][NextSerial]_vars

\* a single append_time_entry on every shape of log sheet
InitAppend == InitWith(TimesheetFiles)

NextAppend ==
    \E project \in Projects, work_type \in WorkTypes, finished_at \in FinishedAtValues,
       now \in Clock, fmt_ok \in BOOLEAN, save_ok \in BOOLEAN :
        /\ nops = 0
        /\ AppendTimeEntry("a", project, work_type, 3725, finished_at, now,
                           fmt_ok, save_ok)

SpecAppend == InitAppend /\ [][NextAppend]_vars

\* a single load_reference_data on every shape of reference sheet
InitReference == InitWith(ReferenceFiles)

NextReference == nops = 0 /\ LoadReferenceData("a")

SpecReference == InitReference /\ [][NextReference]_vars

-----------------------------------------------------------------------------
(* Vocabulary of the properties *)

Timesheet(file) == SheetOf(file, TIMESHEET_SHEET)

Reference(file) == SheetOf(file, REFERENCE_SHEET)

ValueAt(sheet, r, c) ==
    IF <<r, c>> \in DOMAIN sheet.cells THEN sheet.cells[<<r, c>>].value ELSE None

\* a row is occupied when one of its first four columns holds a value
Occupied(sheet, r) == \E c \in 1..4 : ValueAt(sheet, r, c) # None

RowsOf(sheet) == {rc[1] : rc \in DOMAIN sheet.cells}

OccupiedRows(sheet) == {r \in RowsOf(sheet) \ {1} : Occupied(sheet, r)}

LastRow(sheet) == IF RowsOf(sheet) = {} THEN 1 ELSE SetMax(RowsOf(sheet))

FreeRows(sheet) == {r \in 2..LastRow(sheet) : ~Occupied(sheet, r)}

ExpectedTarget(sheet) ==
    IF FreeRows(sheet) # {}
    THEN CHOOSE r \in FreeRows(sheet) : \A q \in FreeRows(sheet) : r <= q
    ELSE LastRow(sheet) + 1

ExpectedDay(finished_at, now) == IF finished_at = None THEN now.day ELSE finished_at.day

\* row r of the sheet holds the entry made of these arguments
HoldsEntry(sheet, r, e) ==
    /\ ValueAt(sheet, r, 1) = Date(ExpectedDay(e.finished_at, e.now))
    /\ ValueAt(sheet, r, 2) = e.project
    /\ ValueAt(sheet, r, 3) = e.work_type
    /\ ValueAt(sheet, r, 4).t = "timedelta"
    /\ ValueAt(sheet, r, 4).days * 86400 + ValueAt(sheet, r, 4).seconds = e.elapsed_seconds

\* the cells of a sheet outside columns 1-4 of row r
Outside(sheet, r) ==
    [rc \in {q \in DOMAIN sheet.cells : q[1] # r \/ q[2] \notin 1..4} |-> sheet.cells[rc]]

\* caller p's last call was an append that returned, and the file is still
\* the one that call saved
AppendDone(p) ==
    /\ call[p].op = "append"
    /\ pc[p] = "idle"
    /\ result[p].kind = "ok"
    /\ call[p].saved_ver = ver

\* this step is the start of a call by p
Starts(p) == nops' = nops + 1 /\ call'[p].id = nops'

-----------------------------------------------------------------------------
(* C1: append_time_entry writes the entry into the smallest row r with     *)
(* 2 <= r <= last_row whose columns 1-4 are all empty, into last_row + 1   *)
(* when there is none, and never into a row that holds a value in one of   *)
(* columns 1-4.                                                            *)
C1_TargetIsFirstFreeRow ==
    \A p \in Procs :
        AppendDone(p) =>
            LET old == Timesheet(call[p].before)
                T == ExpectedTarget(old)
            IN  /\ call[p].target_row = T
                /\ HoldsEntry(Timesheet(disk), T, call[p])
                /\ ~Occupied(old, T)
                /\ T >= 2
                /\ \A r \in RowsOf(old) : Occupied(old, r) =>
                       \A c \in 1..4 : ValueAt(Timesheet(disk), r, c) = ValueAt(old, r, c)

\* a free row below the last row was reused although later rows are occupied
C1_Witness ==
    /\ AppendDone("a")
    /\ call["a"].target_row < LastRow(Timesheet(call["a"].before))
    /\ \E r \in OccupiedRows(Timesheet(call["a"].before)) : r > call["a"].target_row
    /\ \E r \in OccupiedRows(Timesheet(call["a"].before)) : r < call["a"].target_row

(* C2: a successful append_time_entry changes columns 1-4 of the target    *)
(* row and nothing else: the header, every other row with its formatting,  *)
(* the cells of the target row beyond column 4 and the whole reference     *)
(* sheet are as they were.                                                 *)
C2_AppendFrame ==
    \A p \in Procs :
        AppendDone(p) =>
            LET T == call[p].target_row
                old == call[p].before
            IN  /\ sheetnames(disk) = sheetnames(old)
                /\ Reference(disk) = Reference(old)
                /\ Outside(Timesheet(disk), T) = Outside(Timesheet(old), T)
                /\ \A c \in 1..4 : ValueAt(Timesheet(old), T, c) = None
                /\ \A c \in 1..4 : ValueAt(Timesheet(disk), T, c) # None
                /\ T # 1

\* rows 2 and 4 occupied, row 3 empty and reused; a formatted or annotated
\* row is among the ones left alone
C2_Witness ==
    /\ AppendDone("a")
    /\ call["a"].target_row = 3
    /\ {2, 4} \subseteq OccupiedRows(Timesheet(call["a"].before))
    /\ {2, 4} \subseteq OccupiedRows(Timesheet(disk))
    /\ CellAt(Timesheet(disk), 4, 4).number_format = "[h]:mm:ss"

\* the texts of column k of the reference sheet, rows 2 and below
TextAt(sheet, r, k) == Strip(PyStr(ValueAt(sheet, r, k)))

TextRows(sheet, k) ==
    {r \in 2..LastRow(sheet) : ValueAt(sheet, r, k) # None /\ TextAt(sheet, r, k) # <<>>}

FirstRowOf(sheet, k, text) ==
    CHOOSE r \in TextRows(sheet, k) :
        /\ TextAt(sheet, r, k) = text
        /\ \A q \in TextRows(sheet, k) : TextAt(sheet, q, k) = text => r <= q

IsColumnList(list, sheet, k) ==
    /\ Range(list) = {TextAt(sheet, r, k) : r \in TextRows(sheet, k)}
    /\ <<>> \notin Range(list)
    /\ \A i, j \in 1..Len(list) : i # j => list[i] # list[j]
    /\ \A i, j \in 1..Len(list) :
           i < j => FirstRowOf(sheet, k, list[i]) < FirstRowOf(sheet, k, list[j])

LoadDone(p) == call[p].op = "load" /\ result[p].kind = "ok"

(* C3: load_reference_data returns two lists, one from column 1 and one    *)
(* from column 2 of rows 2 and below of the reference sheet: each holds    *)
(* the distinct stripped texts of the non-null, non-blank cells of its     *)
(* column, without empty string or duplicate, in order of first            *)
(* occurrence; row 1 is skipped and a missing cell counts as null.         *)
C3_ReferenceLists ==
    \A p \in Procs :
        LoadDone(p) =>
            /\ Len(result[p].value) = 2
            /\ IsColumnList(result[p].value[1], Reference(call[p].before), 1)
            /\ IsColumnList(result[p].value[2], Reference(call[p].before), 2)

\* a sheet whose first row holds a text found nowhere below, with one text
\* spelled in two ways in column 1, and with the two lists of different length
C3_Witness ==
    /\ LoadDone("a")
    /\ LET sheet == Reference(call["a"].before)
       IN  /\ ValueAt(sheet, 1, 1) # None
           /\ TextAt(sheet, 1, 1) \notin Range(result["a"].value[1])
           /\ \E r, q \in TextRows(sheet, 1) :
                  /\ r < q
                  /\ TextAt(sheet, r, 1) = TextAt(sheet, q, 1)
                  /\ ValueAt(sheet, r, 1) # ValueAt(sheet, q, 1)
           /\ Len(result["a"].value[1]) >= 2
           /\ Len(result["a"].value[2]) # Len(result["a"].value[1])

\* the sheet a call needs
Required(op) == IF op = "load" THEN REFERENCE_SHEET ELSE TIMESHEET_SHEET

\* this step is one in which caller p runs
Acts(p) == Starts(p) \/ (pc[p] = "append_save" /\ pc'[p] = "idle")

(* C4: on a path that does not exist, load_reference_data and              *)
(* append_time_entry raise NotFound without having opened the document,    *)
(* and no file is created or written.                                      *)
C4_MissingFile ==
    [][\A p \in Procs :
          (Starts(p) /\ ~disk.exists /\ call'[p].op \in {"load", "append"}) =>
              /\ result'[p].kind = "FileNotFoundError"
              /\ ~result'[p].opened
              /\ disk' = disk
              /\ ~disk'.exists
              /\ pc'[p] = "idle"
              /\ wb'[p] = NoWorkbook]_vars

\* both operations have been called on a missing path
C4_Witness ==
    /\ ~disk.exists
    /\ call["a"].op = "load" /\ result["a"].kind = "FileNotFoundError"
    /\ call["b"].op = "append" /\ result["b"].kind = "FileNotFoundError"

(* C5: on a document that opens but lacks the sheet the call needs,        *)
(* load_reference_data and append_time_entry raise StructureError with a   *)
(* message that names the expected sheet and every sheet present; the      *)
(* sheet is not created and the document is not saved.                     *)
C5_MissingSheet ==
    [][\A p \in Procs :
          (/\ Starts(p)
           /\ disk.exists
           /\ call'[p].op \in {"load", "append"}
           /\ Required(call'[p].op) \notin Range(sheetnames(disk))) =>
              /\ result'[p].kind = "ExcelStructureError"
              /\ result'[p].opened
              /\ Required(call'[p].op) \in Range(result'[p].msg)
              /\ \A i \in 1..Len(disk.sheets) :
                     disk.sheets[i].title \in Range(result'[p].msg)
              /\ disk' = disk
              /\ pc'[p] = "idle"
              /\ wb'[p] = NoWorkbook]_vars

\* both operations have been called on a document with two other sheets
C5_Witness ==
    /\ Len(disk.sheets) = 2
    /\ call["a"].op = "load" /\ result["a"].kind = "ExcelStructureError"
    /\ call["b"].op = "append" /\ result["b"].kind = "ExcelStructureError"
    /\ Len(result["a"].msg) > 4

TemplateDone(p) ==
    /\ call[p].op = "create"
    /\ result[p].kind = "ok"
    /\ call[p].saved_ver = ver

\* the sheet holds one row, made of n cells with a value, and nothing else
IsHeaderOnly(sheet, n) ==
    /\ DOMAIN sheet.cells = {1} \X (1..n)
    /\ \A c \in 1..n : ValueAt(sheet, 1, c) # None

(* C6: after a successful create_template, whatever the path held before,  *)
(* the document's sheets are the reference sheet then the log sheet and no *)
(* other, the first with one row of 2 header cells and the second with one *)
(* row of 4 header cells, and neither has a data row.                      *)
C6_TemplateShape ==
    \A p \in Procs :
        TemplateDone(p) =>
            /\ disk.exists
            /\ sheetnames(disk) = <<REFERENCE_SHEET, TIMESHEET_SHEET>>
            /\ IsHeaderOnly(disk.sheets[1], 2)
            /\ IsHeaderOnly(disk.sheets[2], 4)
            /\ OccupiedRows(disk.sheets[2]) = {}

\* create_template has replaced a document that held other sheets and entries
C6_Witness ==
    /\ TemplateDone("a")
    /\ call["a"].before.exists
    /\ Len(call["a"].before.sheets) = 3
    /\ OccupiedRows(Timesheet(call["a"].before)) # {}

\* rows of the log sheet that hold a value in some but not all of columns 1-4
PartialRows(file) ==
    IF file.exists /\ Contains(file, TIMESHEET_SHEET)
    THEN {r \in RowsOf(Timesheet(file)) \ {1} :
             /\ Occupied(Timesheet(file), r)
             /\ \E c \in 1..4 : ValueAt(Timesheet(file), r, c) = None}
    ELSE {}

SameEntry(c, d) ==
    /\ c.project = d.project
    /\ c.work_type = d.work_type
    /\ c.elapsed_seconds = d.elapsed_seconds
    /\ ExpectedDay(c.finished_at, c.now) = ExpectedDay(d.finished_at, d.now)

\* f and l are the only two calls that saved: two appends by different
\* callers, f saving first and l last
TwoAppends(f, l) ==
    /\ f # l
    /\ call[f].op = "append" /\ pc[f] = "idle" /\ result[f].kind = "ok"
    /\ call[l].op = "append" /\ pc[l] = "idle" /\ result[l].kind = "ok"
    /\ call[f].saved_ver = 1
    /\ call[l].saved_ver = 2
    /\ ver = 2

\* l loaded the document before f saved it
Overlapped(f, l) == call[l].loaded_ver = 0

(* C7: create_template followed by one append_time_entry leaves row 2 of   *)
(* the log sheet holding the date part of finished_at (of the current time *)
(* when none is given), the project, the work type and a duration that     *)
(* shows as elapsed_seconds split into hours:minutes:seconds (3725 is      *)
(* 1:02:05); load_reference_data on that document returns two empty lists. *)
C7_RoundTrip ==
    (tlog.valid /\ Len(tlog.entries) = 1) =>
        LET e == tlog.entries[1]
            sheet == Timesheet(disk)
            s == e.elapsed_seconds
        IN  /\ ValueAt(sheet, 2, 1) = Date(ExpectedDay(e.finished_at, e.now))
            /\ ValueAt(sheet, 2, 2) = e.project
            /\ ValueAt(sheet, 2, 3) = e.work_type
            /\ ValueAt(sheet, 2, 4).t = "timedelta"
            /\ Shown(ValueAt(sheet, 2, 4)) = <<s \div 3600, (s % 3600) \div 60, s % 60>>
            /\ s = 3725 => Shown(ValueAt(sheet, 2, 4)) = <<1, 2, 5>>
            /\ LastRow(sheet) = 2
            /\ \A p \in Procs :
                   (LoadDone(p) /\ call[p].loaded_ver = ver) =>
                       result[p].value = << <<>>, <<>> >>

\* the reference data was loaded after a template and one entry of 3725 s
C7_Witness ==
    /\ tlog.valid
    /\ Len(tlog.entries) = 1
    /\ tlog.entries[1].elapsed_seconds = 3725
    /\ LoadDone("a")
    /\ call["a"].loaded_ver = ver

(* C9: of two append_time_entry calls on one path that both load the       *)
(* document before either saves, only the entry of the one that saves last *)
(* is in the document afterwards: both chose the same row; when the second *)
(* call loads after the first has saved, both entries are there.           *)
C9_LostUpdate ==
    \A f, l \in Procs :
        TwoAppends(f, l) =>
            LET base == Timesheet(call[f].before)
                sheet == Timesheet(disk)
                Tf == call[f].target_row
                Tl == call[l].target_row
            IN  IF Overlapped(f, l)
                THEN /\ Tf = Tl
                     /\ HoldsEntry(sheet, Tl, call[l])
                     /\ ~SameEntry(call[f], call[l]) => ~HoldsEntry(sheet, Tf, call[f])
                     /\ OccupiedRows(sheet) = OccupiedRows(base) \cup {Tl}
                     /\ Cardinality(OccupiedRows(sheet)) = Cardinality(OccupiedRows(base)) + 1
                ELSE /\ Tf # Tl
                     /\ HoldsEntry(sheet, Tf, call[f])
                     /\ HoldsEntry(sheet, Tl, call[l])
                     /\ OccupiedRows(sheet) = OccupiedRows(base) \cup {Tf, Tl}
                     /\ Cardinality(OccupiedRows(sheet)) = Cardinality(OccupiedRows(base)) + 2

\* both calls returned, and the entry of the one that saved first is gone
C9_Witness ==
    /\ TwoAppends("a", "b")
    /\ Overlapped("a", "b")
    /\ ~SameEntry(call["a"], call["b"])
    /\ ~HoldsEntry(Timesheet(disk), call["a"].target_row, call["a"])

(* C10: from a document made by create_template, k successful appends made *)
(* one after the other leave exactly rows 2..k+1 occupied, row i+1 holding *)
(* the i-th entry; and any append makes one more row occupied, a row that  *)
(* was not occupied before, without changing a row that was.               *)
C10_RowsFillInOrder ==
    /\ tlog.valid =>
           LET k == Len(tlog.entries)
               sheet == Timesheet(disk)
           IN  /\ OccupiedRows(sheet) = 2..(k + 1)
               /\ \A i \in 1..k : HoldsEntry(sheet, i + 1, tlog.entries[i])
    /\ \A p \in Procs :
           AppendDone(p) =>
               LET old == Timesheet(call[p].before)
                   sheet == Timesheet(disk)
                   T == call[p].target_row
               IN  /\ T \notin OccupiedRows(old)
                   /\ OccupiedRows(sheet) = OccupiedRows(old) \cup {T}
                   /\ Cardinality(OccupiedRows(sheet)) = Cardinality(OccupiedRows(old)) + 1
                   /\ ValueAt(sheet, T, 1) # None
                   /\ \A r \in OccupiedRows(old), c \in 1..4 :
                          ValueAt(sheet, r, c) = ValueAt(old, r, c)

\* two different entries were appended to a fresh template
C10_Witness ==
    /\ tlog.valid
    /\ Len(tlog.entries) = 2
    /\ ~SameEntry(tlog.entries[1], tlog.entries[2])
    /\ AppendDone("a")

=============================================================================
